---- MODULE Spec2Model ----
(***************************************************************************)
(* A model of script.js of financial-data-visualization: the CSV           *)
(* normalisation (processCSVData), the date range filter, the completeness *)
(* analysis, the summary statistics and the LTTB sampler, together with    *)
(* the global state the event handlers share.                              *)
(*                                                                         *)
(* JavaScript values are records tagged with their type.  Numbers are      *)
(* integer-valued; quotients are kept as exact fractions.  Array indices   *)
(* are the 0-based indices of the source; At(arr, j) reads arr[j].         *)
(***************************************************************************)
EXTENDS Integers, Sequences, FiniteSets, TLC

VARIABLES
    csv,               \* the PapaParse results object handed to processCSVData
    pc,                \* position of the run: before / after the call under study
    fullDataset,       \* script.js:2
    uniqueCompanies,   \* script.js:3
    selectedCompany,   \* script.js:8
    currentPage,       \* script.js:9
    currentChartType,  \* script.js:7
    startDateInput,    \* value of <input type="date" id="start-date">
    endDateInput,      \* value of <input type="date" id="end-date">
    companyList,       \* the company items of the sidebar (the selectable series)
    message,           \* the kind of banner last shown by showError / showMessage
    completeness,      \* the completeness report last rendered
    summary,           \* the .data-summary element last rendered
    chartData,         \* the records last handed to the charts
    tableData,         \* the records last handed to updateDataTable
    charts,            \* per chart: the Chart instance, the canvas, the placeholder
    totalPages,        \* totalPages as the pagination buttons last built hold it
    paginationPage,    \* currentPage as the pagination buttons last built hold it
    exported,          \* the content of the file exported last, <<>> if none
    warned,            \* the headers named by the warning of script.js:257-259
    data,              \* argument of the function under study (pure-function runs)
    maxPoints,         \* argument of smartSampleData (pure-function runs)
    sampled,           \* result of smartSampleData (pure-function runs)
    filteredData,      \* result of filterDataByDateRange (pure-function runs)
    average            \* result of calculateAverage (pure-function runs)

vars == <<csv, pc, fullDataset, uniqueCompanies, selectedCompany, currentPage,
          currentChartType, startDateInput, endDateInput, companyList, message,
          completeness, summary, chartData, tableData, charts, totalPages, paginationPage,
          exported, warned, data, maxPoints, average, sampled, filteredData>>

appVars == <<csv, fullDataset, uniqueCompanies, selectedCompany, currentPage,
             currentChartType, companyList, message, completeness, summary,
             chartData, tableData, charts, totalPages, paginationPage, exported, warned>>

(***************************************************************************)
(* Bounds of the model.                                                    *)
(***************************************************************************)
\* longest input of smartSampleData
MaxLen == 6
\* largest maxPoints passed to smartSampleData
MaxPoints == 5
\* longest input of filterDataByDateRange
MaxFilterLen == 4
\* latest day of a record
MaxDay == 3
\* largest record set given to analyzeDataCompleteness
MaxAnalyzed == 10
\* largest record set given to displayDataSummary
MaxSummarised == 4
\* most rows of a file whose normalisation is studied
MaxLoadRows == 2
\* most rows of a file in the runs of the whole application
MaxRows == 2
\* most records of company "A" above ChartCap in the large files
MaxOver == 1
\* most values handed to calculateAverage
MaxValues == 3

(***************************************************************************)
(* JavaScript values.                                                      *)
(***************************************************************************)
Null == [t |-> "null"]
Undefined == [t |-> "undefined"]
NaN == [t |-> "NaN"]
Num(v) == [t |-> "number", v |-> v]
\* a string that is not written as a date, e.g. "abc", "12abc", "0x1A"
Str(s) == [t |-> "string", fmt |-> "text", s |-> s]
\* a string written as a date of January 2021 + day, in one of the formats
\* "iso" (2021-01-05), "dmy" (DD/MM/YYYY with DD > 12, e.g. 15/01/2021),
\* or "junk" (no date at all, e.g. "n/a")
DateStr(fmt, day) == [t |-> "string", fmt |-> fmt, day |-> day]

At(arr, j) == arr[j + 1]
Min(x, y) == IF x <= y THEN x ELSE y
Max(x, y) == IF x >= y THEN x ELSE y

\* parseFloat of a string: the longest prefix that is a decimal literal.
StrParseFloat(s) ==
    CASE s = "12abc" -> Num(12)
      [] s = "0x1A"  -> Num(0)
      [] s = "+5"    -> Num(5)
      [] OTHER       -> NaN     \* "abc", " "

\* ToNumber of a string: the whole string as a numeric literal (hex allowed,
\* white space is 0).
StrToNumber(s) ==
    CASE s = "0x1A" -> Num(26)
      [] s = "+5"   -> Num(5)
      [] s = " "    -> Num(0)
      [] OTHER      -> NaN      \* "abc", "12abc"

parseFloat(value) ==
    CASE value.t = "number" -> value
      [] value.t = "string" -> IF value.fmt = "text" THEN StrParseFloat(value.s) ELSE NaN
      [] OTHER -> NaN           \* null, undefined

ToNumber(value) ==
    CASE value.t = "number" -> value
      [] value.t = "string" -> IF value.fmt = "text" THEN StrToNumber(value.s) ELSE NaN
      [] value.t = "null"   -> Num(0)
      [] OTHER -> NaN           \* undefined

isNaN(x) == ToNumber(x).t = "NaN"
isFinite(value) == ToNumber(value).t = "number"

\* the arithmetic of JavaScript numbers: NaN is contagious and compares false
JsSub(x, y) == IF ToNumber(x).t = "number" /\ ToNumber(y).t = "number"
               THEN Num(ToNumber(x).v - ToNumber(y).v) ELSE NaN
JsMul(x, y) == IF x.t = "number" /\ y.t = "number" THEN Num(x.v * y.v) ELSE NaN
JsAbs(x) == IF x.t = "number" THEN Num(IF x.v < 0 THEN -x.v ELSE x.v) ELSE NaN
JsGt(x, y) == x.t = "number" /\ y.t = "number" /\ x.v > y.v

\* script.js:377
isValidNumber(value) ==
    /\ value # Null
    /\ value # Undefined
    /\ ~isNaN(parseFloat(value))
    /\ isFinite(value)

\* script.js:390
ensureNumber(value, defaultValue) ==
    IF isValidNumber(value) THEN parseFloat(value) ELSE defaultValue

(***************************************************************************)
(* smartSampleData (script.js:685): Largest-Triangle-Three-Buckets.        *)
(***************************************************************************)
\* Math.floor(k * bucketSize) with bucketSize = (length - 2) / (maxPoints - 2).
\* Only evaluated inside the loop, where maxPoints > 2.  For the lengths of
\* this model the IEEE-754 product floors to the same integer as the exact one.
BucketFloor(k, len, mp) == (k * (len - 2)) \div (mp - 2)

\* script.js:727
TriangleArea(a, b, c) ==
    JsAbs(JsSub(JsMul(JsSub(a.index_date, c.index_date),
                      JsSub(b.closing_index_value, a.closing_index_value)),
                JsMul(JsSub(a.index_date, b.index_date),
                      JsSub(c.closing_index_value, a.closing_index_value))))

\* the inner loop, script.js:716-736: from index j on, the index of maximal area
RECURSIVE ScanBucket(_, _, _, _, _, _, _)
ScanBucket(d, a, c, j, endIdx, maxArea, maxAreaIdx) ==
    IF ~(j <= endIdx /\ j < Len(d) - 1) THEN maxAreaIdx
    ELSE LET b == At(d, j)
             skip == \/ ~isValidNumber(a.closing_index_value)
                     \/ ~isValidNumber(b.closing_index_value)
                     \/ ~isValidNumber(c.closing_index_value)
             area == TriangleArea(a, b, c)
         IN  IF ~skip /\ JsGt(area, maxArea)
             THEN ScanBucket(d, a, c, j + 1, endIdx, area, j)
             ELSE ScanBucket(d, a, c, j + 1, endIdx, maxArea, maxAreaIdx)

\* BucketPick with maxAreaIdx starting at endIdx instead of startIdx
BucketPick_StartsAtEnd(d, mp, i, a) ==
    LET startIdx == BucketFloor(i, Len(d), mp) + 1
        endIdx == BucketFloor(i + 1, Len(d), mp) + 1
        nextBucketIdx == Min(BucketFloor(i + 2, Len(d), mp) + 1, Len(d) - 1)
        c == At(d, nextBucketIdx)
    IN  ScanBucket(d, a, c, startIdx, endIdx, Num(-1), endIdx)

\* BucketPick with c at the start index of bucket i + 1
BucketPick_StartOfNext(d, mp, i, a) ==
    LET startIdx == BucketFloor(i, Len(d), mp) + 1
        endIdx == BucketFloor(i + 1, Len(d), mp) + 1
        nextBucketIdx == Min(BucketFloor(i + 1, Len(d), mp) + 1, Len(d) - 1)
        c == At(d, nextBucketIdx)
    IN  ScanBucket(d, a, c, startIdx, endIdx, Num(-1), startIdx)

\* the index pushed for bucket i, script.js:700-739
BucketPick(d, mp, i, a) ==
    LET startIdx == BucketFloor(i, Len(d), mp) + 1
        endIdx == BucketFloor(i + 1, Len(d), mp) + 1
        nextBucketIdx == Min(BucketFloor(i + 2, Len(d), mp) + 1, Len(d) - 1)
        c == At(d, nextBucketIdx)
    IN  ScanBucket(d, a, c, startIdx, endIdx, Num(-1), startIdx)

\* the outer loop, script.js:699-740: the records pushed by the iterations
\* i = lo, ..., hi - 1, entered with `a` the record pushed last.  The
\* iterations are taken in order, the first half of them before the second.
RECURSIVE SampleLoop(_, _, _, _, _)
SampleLoop(d, mp, lo, hi, a) ==
    IF ~(lo < hi) THEN <<>>
    ELSE IF hi - lo = 1
         THEN <<At(d, BucketPick(d, mp, lo, a))>>
         ELSE LET mid == (lo + hi) \div 2
                  firstHalf == SampleLoop(d, mp, lo, mid, a)
              IN  firstHalf \o SampleLoop(d, mp, mid, hi, firstHalf[Len(firstHalf)])

\* smartSampleData without the push of script.js:743
smartSampleData_NoLastPush(d, mp) ==
    IF Len(d) = 0 THEN <<>>
    ELSE IF Len(d) <= mp THEN d
    ELSE <<At(d, 0)>> \o SampleLoop(d, mp, 0, mp - 2, At(d, 0))

\* smartSampleData seeded with data[1] instead of data[0] at script.js:693
smartSampleData_SeedSecond(d, mp) ==
    IF Len(d) = 0 THEN <<>>
    ELSE IF Len(d) <= mp THEN d
    ELSE Append(<<At(d, 1)>> \o SampleLoop(d, mp, 0, mp - 2, At(d, 1)), At(d, Len(d) - 1))

\* smartSampleData with `<` for `<=` at script.js:687
smartSampleData_StrictThreshold(d, mp) ==
    IF Len(d) = 0 THEN <<>>
    ELSE IF Len(d) < mp THEN d
    ELSE Append(<<At(d, 0)>> \o SampleLoop(d, mp, 0, mp - 2, At(d, 0)), At(d, Len(d) - 1))

smartSampleData(d, mp) ==
    IF Len(d) = 0 THEN <<>>
    ELSE IF Len(d) <= mp THEN d
    ELSE Append(<<At(d, 0)>> \o SampleLoop(d, mp, 0, mp - 2, At(d, 0)), At(d, Len(d) - 1))

(***************************************************************************)
(* Dates.  A timestamp is counted in days; an ISO date string and the      *)
(* value of a date input are parsed as UTC midnight of their day.          *)
(***************************************************************************)
\* the largest time value of a Date, 8.64e15 ms, in days
MaxDateTime == 100000000

\* new Date(value).getTime()
DateTime(value) ==
    CASE value.t = "number" ->
            IF value.v <= MaxDateTime /\ -value.v <= MaxDateTime THEN value ELSE NaN
      [] value.t = "string" -> IF value.fmt = "iso" THEN Num(value.day) ELSE NaN
      [] value.t = "null"   -> Num(0)
      [] OTHER -> NaN

\* !value
Falsy(value) ==
    \/ value.t \in {"null", "undefined", "NaN"}
    \/ value.t = "number" /\ value.v = 0
    \/ value.t = "string" /\ value.fmt = "text" /\ value.s = ""

\* script.js:343-366: the manual formats tried when the native parse fails.
\* /^(\d{2})\/(\d{2})\/(\d{4})$/ matches a "dmy" string, which is rebuilt as
\* `${yyyy}-${mm}-${dd}` and parsed again.
FallbackParse(dateStr) ==
    IF dateStr.t = "string" /\ dateStr.fmt = "dmy"
    THEN DateTime(DateStr("iso", dateStr.day))
    ELSE NaN

\* script.js:357: dateStr.match is reached with a value that has no method
\* match (a number Papa.parse typed, whose Date is invalid) and the call
\* throws a TypeError
ValidateDateThrows(dateStr) ==
    /\ ~Falsy(dateStr)
    /\ isNaN(DateTime(dateStr))
    /\ dateStr.t # "string"

\* script.js:334, for the values on which it returns
validateDate(dateStr) ==
    IF Falsy(dateStr) THEN FALSE
    ELSE IF isNaN(DateTime(dateStr)) THEN ~isNaN(FallbackParse(dateStr))
    ELSE TRUE

(***************************************************************************)
(* filterDataByDateRange (script.js:566).                                  *)
(***************************************************************************)
\* rowDate >= startDate, rowDate <= endDate on Date objects
DateGe(x, y) == x.t = "number" /\ y.t = "number" /\ x.v >= y.v
DateLe(x, y) == x.t = "number" /\ y.t = "number" /\ x.v <= y.v

\* StartFilter with `>` for `>=` at script.js:574
StartFilter_Exclusive(d, startValue) ==
    SelectSeq(d, LAMBDA row : /\ ~isNaN(DateTime(row.index_date))
                              /\ DateGe(DateTime(row.index_date), DateTime(startValue))
                              /\ DateTime(row.index_date) # DateTime(startValue))

\* script.js:572-575
StartFilter(d, startValue) ==
    SelectSeq(d, LAMBDA row : /\ ~isNaN(DateTime(row.index_date))
                              /\ DateGe(DateTime(row.index_date), DateTime(startValue)))

\* script.js:581-584
EndFilter(d, endValue) ==
    SelectSeq(d, LAMBDA row : /\ ~isNaN(DateTime(row.index_date))
                              /\ DateLe(DateTime(row.index_date), DateTime(endValue)))

\* the comparator of script.js:588-598: negative, zero or positive
DateCompare(a, b) ==
    LET dateA == DateTime(a.index_date)
        dateB == DateTime(b.index_date)
    IN  IF isNaN(dateA) /\ isNaN(dateB) THEN 0
        ELSE IF isNaN(dateA) THEN 1
        ELSE IF isNaN(dateB) THEN -1
        ELSE dateA.v - dateB.v

\* Array.prototype.sort is stable (ECMAScript 2019): an element goes behind
\* every element that does not compare greater than it.
\* a sort that is not stable: an element goes before the elements equal to it
RECURSIVE InsertSorted_BeforeEqual(_, _)
InsertSorted_BeforeEqual(sorted, x) ==
    IF sorted = <<>> THEN <<x>>
    ELSE IF DateCompare(Head(sorted), x) >= 0 THEN <<x>> \o sorted
    ELSE <<Head(sorted)>> \o InsertSorted_BeforeEqual(Tail(sorted), x)

RECURSIVE InsertSorted(_, _)
InsertSorted(sorted, x) ==
    IF sorted = <<>> THEN <<x>>
    ELSE IF DateCompare(Head(sorted), x) > 0 THEN <<x>> \o sorted
    ELSE <<Head(sorted)>> \o InsertSorted(Tail(sorted), x)

\* no element compares greater than its successor
InOrder(d) == \A i \in 1..(Len(d) - 1) : DateCompare(d[i], d[i + 1]) <= 0

\* script.js:588-598.  A stable sort leaves a sequence that is in order as
\* it is; any other is sorted by insertion.
RECURSIVE SortByDate(_)
SortByDate(d) ==
    IF InOrder(d) THEN d
    ELSE InsertSorted(SortByDate(SubSeq(d, 1, Len(d) - 1)), d[Len(d)])

filterDataByDateRange(d, startValue, endValue) ==
    LET afterStart == IF ~Falsy(startValue) THEN StartFilter(d, startValue) ELSE d
        afterEnd == IF ~Falsy(endValue) THEN EndFilter(afterStart, endValue) ELSE afterStart
    IN  SortByDate(afterEnd)

(***************************************************************************)
(* analyzeDataCompleteness (script.js:497).                                *)
(***************************************************************************)
\* script.js:499-505
CompletenessFields ==
    <<"closing_index_value", "volume", "pe_ratio", "pb_ratio", "div_yield">>

\* script.js:514
CompleteThreshold == 90

\* script.js:508
ValidCount(d, field) == Len(SelectSeq(d, LAMBDA row : isValidNumber(row[field])))

\* CompletenessStatus with `<=` for `<` at script.js:514
CompletenessStatus_InclusivePartial(valid, total) ==
    IF total # 0 /\ valid = 0 THEN "missing"
    ELSE IF total # 0 /\ valid * 100 <= CompleteThreshold * total THEN "partial"
    ELSE "complete"

\* script.js:509-518 with percent = (valid / total) * 100 kept as valid and
\* total; 0 / 0 is NaN, which is neither === 0 nor < 90
CompletenessStatus(valid, total) ==
    IF total # 0 /\ valid = 0 THEN "missing"
    ELSE IF total # 0 /\ valid * 100 < CompleteThreshold * total THEN "partial"
    ELSE "complete"

analyzeDataCompleteness(d) ==
    [i \in 1..Len(CompletenessFields) |->
        [field |-> CompletenessFields[i],
         valid |-> ValidCount(d, CompletenessFields[i]),
         total |-> Len(d),
         status |-> CompletenessStatus(ValidCount(d, CompletenessFields[i]), Len(d))]]

(***************************************************************************)
(* displayDataSummary (script.js:628).  A quotient is a fraction           *)
(* [num, den]; the standard deviation is the square root of `variance`.    *)
(***************************************************************************)
RECURSIVE Gcd(_, _)
Gcd(x, y) == IF y = 0 THEN x ELSE Gcd(y, x % y)
Abs(x) == IF x < 0 THEN -x ELSE x

\* the fraction n / m (m > 0) in lowest terms
Frac(n, m) == [num |-> n \div Gcd(Abs(n), m), den |-> m \div Gcd(Abs(n), m)]
FracSub(x, y) == Frac(x.num * y.den - y.num * x.den, x.den * y.den)
FracAdd(x, y) == Frac(x.num * y.den + y.num * x.den, x.den * y.den)
FracMul(x, y) == Frac(x.num * y.num, x.den * y.den)
FracDiv(x, n) == Frac(x.num, x.den * n)
FracEq(x, y) == x.num * y.den = y.num * x.den

\* ClosingValues without the filter of script.js:632, a missing close counted as 0
ClosingValues_NoFilter(d) ==
    [i \in 1..Len(d) |-> IF isValidNumber(d[i].closing_index_value)
                         THEN d[i].closing_index_value.v ELSE 0]

\* script.js:632
ClosingValues(d) ==
    LET closes == [i \in 1..Len(d) |-> d[i].closing_index_value]
        valid == SelectSeq(closes, isValidNumber)
    IN  [i \in 1..Len(valid) |-> valid[i].v]

\* the two halves of a sequence of two or more elements
FirstHalf(values) == SubSeq(values, 1, Len(values) \div 2)
SecondHalf(values) == SubSeq(values, Len(values) \div 2 + 1, Len(values))

\* script.js:639: reduce((sum, val) => sum + val, 0); the sum of integers
\* does not depend on the grouping
RECURSIVE SumValues(_)
SumValues(values) ==
    IF values = <<>> THEN 0
    ELSE IF Len(values) = 1 THEN values[1]
    ELSE SumValues(FirstHalf(values)) + SumValues(SecondHalf(values))

\* script.js:637: Math.min(...values)
RECURSIVE MinValue(_)
MinValue(values) ==
    IF Len(values) = 1 THEN values[1]
    ELSE Min(MinValue(FirstHalf(values)), MinValue(SecondHalf(values)))

\* script.js:638: Math.max(...values)
RECURSIVE MaxValue(_)
MaxValue(values) ==
    IF Len(values) = 1 THEN values[1]
    ELSE Max(MaxValue(FirstHalf(values)), MaxValue(SecondHalf(values)))

\* script.js:639
Average(values) == FracDiv(Frac(SumValues(values), 1), Len(values))

\* script.js:642: reduce((sum, val) => sum + Math.pow(val - avg, 2), 0)
RECURSIVE SumSquares(_, _)
SumSquares(values, avg) ==
    IF values = <<>> THEN Frac(0, 1)
    ELSE IF Len(values) = 1
         THEN LET dev == FracSub(Frac(values[1], 1), avg) IN FracMul(dev, dev)
         ELSE FracAdd(SumSquares(FirstHalf(values), avg), SumSquares(SecondHalf(values), avg))

Variance(values) == FracDiv(SumSquares(values, Average(values)), Len(values))

\* script.js:646-653: "N/A" unless two or more dates parse
DateRange(d) ==
    LET times == SelectSeq([i \in 1..Len(d) |-> DateTime(d[i].index_date)],
                           LAMBDA x : ~isNaN(x))
        days == [i \in 1..Len(times) |-> times[i].v]
    IN  IF Len(days) > 1 THEN <<MinValue(days), MaxValue(days)>> ELSE <<>>

NoSummary == [shown |-> FALSE]

\* the .data-summary element after displayDataSummary(d), given the one before
displayDataSummary(d, before) ==
    IF Len(d) = 0 THEN before
    ELSE IF Len(ClosingValues(d)) = 0 THEN before
    ELSE [shown |-> TRUE,
          count |-> Len(d),
          dateRange |-> DateRange(d),
          min |-> MinValue(ClosingValues(d)),
          max |-> MaxValue(ClosingValues(d)),
          avg |-> Average(ClosingValues(d)),
          variance |-> Variance(ClosingValues(d))]

(***************************************************************************)
(* The state after the script is loaded (script.js:1-10, empty inputs).    *)
(***************************************************************************)
NoFile == [fields |-> {}, data |-> <<>>]

\* no chart has been handed any record
NoCharts == [price |-> <<>>, volume |-> <<>>, metrics |-> <<>>]

\* script.js:4-6 and index.html:69-89: no Chart instance (type is the type
\* the Chart was constructed with, "none" without a Chart), every canvas
\* displayed, no .no-data-placeholder element
ChartIds == {"price", "volume", "metrics"}
NoChartInstances ==
    [c \in ChartIds |-> [instance |-> FALSE, type |-> "none", canvas |-> "shown",
                         placeholder |-> FALSE]]

Constructed ==
    /\ fullDataset = <<>>
    /\ uniqueCompanies = <<>>
    /\ selectedCompany = Null
    /\ currentPage = 1
    /\ currentChartType = "line"
    /\ companyList = <<>>
    /\ message = "none"
    /\ completeness = <<>>
    /\ summary = NoSummary
    /\ chartData = NoCharts
    /\ tableData = <<>>
    /\ charts = NoChartInstances
    /\ totalPages = 0
    /\ paginationPage = 0
    /\ exported = <<>>
    /\ warned = {}

NoCall ==
    /\ data = <<>>
    /\ maxPoints = 0
    /\ average = Null
    /\ sampled = <<>>
    /\ filteredData = <<>>

(***************************************************************************)
(* smartSampleData on its own: every input up to MaxLen records, with      *)
(* ascending dates that are either numbers or ISO strings.                 *)
(***************************************************************************)
SampleCloses == {Null, Num(0), Num(2)}

SampleDate(kind, i) == IF kind = "number" THEN Num(i) ELSE DateStr("iso", i)

SampleInputs(most) ==
    UNION {UNION {{[i \in 1..n |-> [id |-> i,
                                     index_date |-> SampleDate(kind, i),
                                     closing_index_value |-> cs[i]]]
                      : cs \in [1..n -> SampleCloses]}
                  : kind \in {"number", "string"}}
           : n \in 0..most}

InitSample ==
    /\ Constructed
    /\ csv = NoFile
    /\ pc = "call"
    /\ startDateInput = Str("")
    /\ endDateInput = Str("")
    /\ data \in SampleInputs(MaxLen)
    /\ maxPoints \in 2..MaxPoints
    /\ average = Null
    /\ sampled = <<>>
    /\ filteredData = <<>>

CallSmartSampleData ==
    /\ pc = "call"
    /\ pc' = "return"
    /\ sampled' = smartSampleData(data, maxPoints)
    /\ UNCHANGED <<appVars, startDateInput, endDateInput, data, maxPoints, average,
                   filteredData>>

NextSample == CallSmartSampleData

SpecSample == InitSample /\ [][NextSample]_vars

\* C1: for every input of length >= 2 and every maxPoints >= 2 the output of
\* smartSampleData has exactly min(data.length, maxPoints) elements.
C1_SampleLength ==
    (pc = "return" /\ Len(data) >= 2) => Len(sampled) = Min(Len(data), maxPoints)

C1_Witness ==
    /\ pc = "return"
    /\ maxPoints > 2
    /\ Len(data) > maxPoints
    /\ Len(sampled) = maxPoints

\* C2: for every input of length >= 2 and every maxPoints >= 2 the output of
\* smartSampleData starts with data[0] and ends with data[data.length - 1].
C2_SampleEndpoints ==
    (pc = "return" /\ Len(data) >= 2) =>
        /\ At(sampled, 0) = At(data, 0)
        /\ At(sampled, Len(sampled) - 1) = At(data, Len(data) - 1)

C2_Witness ==
    /\ pc = "return"
    /\ Len(data) > maxPoints
    /\ At(sampled, 0) = At(data, 0)
    /\ At(sampled, Len(sampled) - 1) = At(data, Len(data) - 1)

\* C3: when data.length <= maxPoints the output of smartSampleData is the input:
\* the same elements in the same order.
C3_SampleNoOp ==
    (pc = "return" /\ Len(data) <= maxPoints) => sampled = data

C3_Witness ==
    /\ pc = "return"
    /\ Len(data) = maxPoints
    /\ Len(data) > 2
    /\ sampled = data

(***************************************************************************)
(* filterDataByDateRange on its own: the records of one company in file    *)
(* order, each with a date that validateDate accepts, and the two date     *)
(* inputs empty or set to a day.                                           *)
(***************************************************************************)
\* "15/01/2021" is accepted by validateDate through the DD/MM/YYYY format
FilterDates == {DateStr("iso", day) : day \in 1..MaxDay} \cup {DateStr("dmy", 15)}

DateInputValues == {Str("")} \cup {DateStr("iso", day) : day \in 0..(MaxDay + 1)}

FilterInputs(most) ==
    UNION {{[i \in 1..n |-> [id |-> i, index_date |-> ds[i]]]
               : ds \in [1..n -> FilterDates]}
           : n \in 0..most}

InitFilter ==
    /\ Constructed
    /\ csv = NoFile
    /\ pc = "call"
    /\ startDateInput \in DateInputValues
    /\ endDateInput \in DateInputValues
    /\ data \in FilterInputs(MaxFilterLen)
    /\ maxPoints = 0
    /\ average = Null
    /\ sampled = <<>>
    /\ filteredData = <<>>

CallFilterDataByDateRange ==
    /\ pc = "call"
    /\ pc' = "return"
    /\ filteredData' = filterDataByDateRange(data, startDateInput, endDateInput)
    /\ UNCHANGED <<appVars, startDateInput, endDateInput, data, maxPoints, average,
                   sampled>>

NextFilter == CallFilterDataByDateRange

SpecFilter == InitFilter /\ [][NextFilter]_vars

\* the date of a record parses when the filter runs
Parses(row) == DateTime(row.index_date).t = "number"
DayOf(row) == DateTime(row.index_date).v

\* start <= d <= end, an empty input being no bound; a date that does not
\* parse when the filter runs satisfies no bound
InRange(row) ==
    /\ startDateInput = Str("") \/ (Parses(row) /\ startDateInput.day <= DayOf(row))
    /\ endDateInput = Str("") \/ (Parses(row) /\ DayOf(row) <= endDateInput.day)

\* C7: filterDataByDateRange returns exactly the input records whose date d
\* satisfies start <= d <= end, both bounds inclusive and an empty bound being
\* no constraint: each such record once, no other record, and the empty
\* sequence when none qualifies.
C7_FilterExact ==
    pc = "return" =>
        /\ \A i \in 1..Len(filteredData) :
              /\ filteredData[i].id \in 1..Len(data)
              /\ filteredData[i] = data[filteredData[i].id]
              /\ InRange(filteredData[i])
        /\ \A k \in 1..Len(data) :
              InRange(data[k]) =>
                  Cardinality({i \in 1..Len(filteredData) : filteredData[i].id = k}) = 1

\* a record on the start day and the end day is kept, its neighbours are not
C7_Witness ==
    /\ pc = "return"
    /\ startDateInput = DateStr("iso", 2)
    /\ endDateInput = DateStr("iso", 2)
    /\ Len(data) >= 3
    /\ Len(filteredData) = 1
    /\ DayOf(filteredData[1]) = 2

\* the filter returns the empty sequence when the start is after every date
C7_WitnessEmpty ==
    /\ pc = "return"
    /\ Len(data) >= 2
    /\ startDateInput # Str("")
    /\ \A k \in 1..Len(data) : Parses(data[k]) /\ DayOf(data[k]) < startDateInput.day
    /\ filteredData = <<>>

\* C8: the output of filterDataByDateRange is ascending by date, and records
\* with equal dates keep the relative order they have in the input.
C8_FilterSortedStable ==
    pc = "return" =>
        \A i, j \in 1..Len(filteredData) :
            i < j =>
                /\ Parses(filteredData[j]) => Parses(filteredData[i])
                /\ (Parses(filteredData[i]) /\ Parses(filteredData[j])) =>
                       DayOf(filteredData[i]) <= DayOf(filteredData[j])
                /\ filteredData[i].index_date = filteredData[j].index_date =>
                       filteredData[i].id < filteredData[j].id

\* an input out of date order with two records of the same day
C8_Witness ==
    /\ pc = "return"
    /\ Len(filteredData) >= 3
    /\ \E i, j \in 1..Len(data) :
          i < j /\ Parses(data[i]) /\ Parses(data[j]) /\ DayOf(data[i]) > DayOf(data[j])
    /\ \E i \in 1..(Len(filteredData) - 1) :
          /\ Parses(filteredData[i])
          /\ filteredData[i].index_date = filteredData[i + 1].index_date

(***************************************************************************)
(* analyzeDataCompleteness on its own: non-empty sets of normalised        *)
(* records (every numeric field a number or null, the close a number).     *)
(***************************************************************************)
AnalyzedRecords ==
    {[closing_index_value |-> Num(10), volume |-> Num(0), pe_ratio |-> Num(0),
      pb_ratio |-> Num(1), div_yield |-> Num(0)],
     [closing_index_value |-> Num(20), volume |-> Null, pe_ratio |-> Null,
      pb_ratio |-> Null, div_yield |-> Null],
     [closing_index_value |-> Num(30), volume |-> Num(5), pe_ratio |-> Null,
      pb_ratio |-> Num(1), div_yield |-> Null]}

AnalyzedInputs(most) == UNION {[1..n -> AnalyzedRecords] : n \in 1..most}

InitCompleteness ==
    /\ Constructed
    /\ csv = NoFile
    /\ pc = "call"
    /\ startDateInput = Str("")
    /\ endDateInput = Str("")
    /\ data \in AnalyzedInputs(MaxAnalyzed)
    /\ maxPoints = 0
    /\ average = Null
    /\ sampled = <<>>
    /\ filteredData = <<>>

CallAnalyzeDataCompleteness ==
    /\ pc = "call"
    /\ pc' = "return"
    /\ completeness' = analyzeDataCompleteness(data)
    /\ UNCHANGED <<csv, fullDataset, uniqueCompanies, selectedCompany, currentPage,
                   currentChartType, companyList, message, summary, chartData,
                   tableData, charts, totalPages, paginationPage, exported, warned, startDateInput,
                   endDateInput, data, maxPoints, average,
                   sampled, filteredData>>

NextCompleteness == CallAnalyzeDataCompleteness

SpecCompleteness == InitCompleteness /\ [][NextCompleteness]_vars

\* the number of records of `data` that hold a number in `field`
NumbersIn(field) == Cardinality({k \in 1..Len(data) : data[k][field].t = "number"})

\* C9: over a non-empty record set each tracked metric is classified missing
\* when no value is valid, partial when the valid share is above 0% and below
\* 90%, and complete when it is 90% or more (9 valid out of 10 is complete).
C9_CompletenessTiers ==
    pc = "return" =>
        /\ Len(completeness) = Len(CompletenessFields)
        /\ \A i \in 1..Len(completeness) :
              LET valid == NumbersIn(CompletenessFields[i])
                  status == completeness[i].status
              IN  /\ completeness[i].field = CompletenessFields[i]
                  /\ status \in {"missing", "partial", "complete"}
                  /\ status = "missing" <=> valid = 0
                  /\ status = "partial" <=> (0 < valid /\ 10 * valid < 9 * Len(data))
                  /\ status = "complete" <=> 10 * valid >= 9 * Len(data)

\* exactly 9 valid values out of 10 are reported complete
C9_Witness ==
    /\ pc = "return"
    /\ Len(data) = 10
    /\ \E i \in 1..Len(completeness) :
          /\ NumbersIn(CompletenessFields[i]) = 9
          /\ completeness[i].status = "complete"
    /\ \E i \in 1..Len(completeness) : completeness[i].status = "partial"

(***************************************************************************)
(* displayDataSummary on its own: record sets whose close is a number or   *)
(* null.                                                                   *)
(***************************************************************************)
SummaryCloses == {Null, Num(10), Num(20), Num(30)}

SummaryInputs(most) ==
    UNION {{[i \in 1..n |-> [id |-> i,
                             index_date |-> DateStr("iso", i),
                             closing_index_value |-> cs[i]]]
               : cs \in [1..n -> SummaryCloses]}
           : n \in 0..most}

InitSummary ==
    /\ Constructed
    /\ csv = NoFile
    /\ pc = "call"
    /\ startDateInput = Str("")
    /\ endDateInput = Str("")
    /\ data \in SummaryInputs(MaxSummarised)
    /\ maxPoints = 0
    /\ average = Null
    /\ sampled = <<>>
    /\ filteredData = <<>>

CallDisplayDataSummary ==
    /\ pc = "call"
    /\ pc' = "return"
    /\ summary' = displayDataSummary(data, summary)
    /\ UNCHANGED <<csv, fullDataset, uniqueCompanies, selectedCompany, currentPage,
                   currentChartType, companyList, message, completeness, chartData,
                   tableData, charts, totalPages, paginationPage, exported, warned, startDateInput,
                   endDateInput, data, maxPoints, average,
                   sampled, filteredData>>

NextSummary == CallDisplayDataSummary

SpecSummary == InitSummary /\ [][NextSummary]_vars

\* the positions of `data` whose close is a number
ValidCloses == {k \in 1..Len(data) : data[k].closing_index_value.t = "number"}

\* the sum of close^power over a set of positions of `data`
RECURSIVE PowerSum(_, _)
PowerSum(positions, power) ==
    IF positions = {} THEN 0
    ELSE LET k == CHOOSE k \in positions : TRUE
         IN  data[k].closing_index_value.v ^ power + PowerSum(positions \ {k}, power)

\* C10: in displayDataSummary the mean and the population variance are taken
\* over exactly the records with a valid close (mean = S1 / m and
\* variance = (m * S2 - S1^2) / m^2 for the m valid closes with sum S1 and sum
\* of squares S2), while the count is the number of all records; closes
\* [10, 20, 30] give mean 20 and variance 200/3.
C10_SummaryStatistics ==
    (pc = "return" /\ ValidCloses # {}) =>
        LET m == Cardinality(ValidCloses)
            s1 == PowerSum(ValidCloses, 1)
            s2 == PowerSum(ValidCloses, 2)
        IN  /\ summary.shown
            /\ summary.count = Len(data)
            /\ FracEq(summary.avg, Frac(s1, m))
            /\ FracEq(summary.variance, Frac(m * s2 - s1 * s1, m * m))
            /\ (Len(data) = 3 /\ \A k \in 1..3 : data[k].closing_index_value = Num(10 * k)) =>
                   /\ FracEq(summary.avg, Frac(20, 1))
                   /\ FracEq(summary.variance, Frac(200, 3))

\* closes 10, 20, 30 and one record without a close: 4 data points, mean 20,
\* variance 200/3
C10_Witness ==
    /\ pc = "return"
    /\ Len(data) = 4
    /\ {data[k].closing_index_value : k \in 1..4} = {Null, Num(10), Num(20), Num(30)}
    /\ summary.shown
    /\ summary.count = 4
    /\ FracEq(summary.avg, Frac(20, 1))
    /\ FracEq(summary.variance, Frac(200, 3))

(***************************************************************************)
(* processCSVData (script.js:232) and selectCompany (script.js:443).       *)
(* A parsed file is [fields, data]: the header names and the rows, each    *)
(* row a function from the header names to cells.  "id" is the line of     *)
(* the row in the file; it stands for the identity of the row object.      *)
(***************************************************************************)
\* REQUIRED_HEADERS with "volume" moved into it from OPTIONAL_HEADERS
REQUIRED_HEADERS_WithVolume ==
    <<"index_name", "index_date", "open_index_value", "high_index_value",
      "low_index_value", "closing_index_value", "volume">>

\* script.js:13
REQUIRED_HEADERS ==
    <<"index_name", "index_date", "open_index_value", "high_index_value",
      "low_index_value", "closing_index_value">>

\* script.js:19
OPTIONAL_HEADERS ==
    <<"points_change", "change_percent", "volume", "turnover_rs_cr", "pe_ratio",
      "pb_ratio", "div_yield">>

\* the fields rewritten at script.js:276-286
NumericFields ==
    {"open_index_value", "high_index_value", "low_index_value",
     "closing_index_value", "points_change", "change_percent", "volume",
     "turnover_rs_cr", "pe_ratio", "pb_ratio", "div_yield"}

\* script.js:609
ChartCap == 150

\* script.js:10
rowsPerPage == 50

\* row[field]: undefined when the file has no such column
Get(row, field) == IF field \in DOMAIN row THEN row[field] ELSE Undefined

Range(seq) == {seq[i] : i \in 1..Len(seq)}

\* script.js:242-244 for a list with only the three columns a row is validated on
MissingHeaders_NameDateClose(headers, results) ==
    {h \in Range(headers) \cap {"index_name", "index_date", "closing_index_value"} :
        h \notin results.fields}

\* script.js:242-244, 253-255: headers.filter(h => !results.meta.fields.includes(h))
MissingHeaders(headers, results) == {h \in Range(headers) : h \notin results.fields}

\* RowIsValid without the test of script.js:269
RowIsValid_NoCloseTest(row) ==
    /\ ~Falsy(Get(row, "index_name"))
    /\ validateDate(Get(row, "index_date"))

\* script.js:266-268: the callback of the filter throws on the row
RowThrows(row) ==
    /\ ~Falsy(Get(row, "index_name"))
    /\ ValidateDateThrows(Get(row, "index_date"))

\* script.js:266-270
RowIsValid(row) ==
    /\ ~Falsy(Get(row, "index_name"))
    /\ validateDate(Get(row, "index_date"))
    /\ isValidNumber(Get(row, "closing_index_value"))

\* script.js:274-287
NormalizeRow(row) ==
    [f \in DOMAIN row \cup NumericFields |->
        IF f \in NumericFields THEN ensureNumber(Get(row, f), Null) ELSE row[f]]

\* script.js:263-288
NormalizeRows(rows) ==
    LET kept == SelectSeq(rows, RowIsValid)
    IN  [i \in 1..Len(kept) |-> NormalizeRow(kept[i])]

\* the UTF-16 code unit of a one-letter name, the key of Array.prototype.sort()
CodeUnit(name) ==
    CASE name.s = "A" -> 65
      [] name.s = "B" -> 66
      [] name.s = "a" -> 97

\* Array.prototype.sort() without a comparator: ascending by code unit
RECURSIVE SortNames(_)
SortNames(names) ==
    IF names = {} THEN <<>>
    ELSE LET first == CHOOSE x \in names : \A y \in names : CodeUnit(x) <= CodeUnit(y)
         IN  <<first>> \o SortNames(names \ {first})

\* the names folded to one casing before the Set is built
UniqueCompanies_IgnoreCase(dataset) ==
    SortNames({name \in {dataset[i].index_name : i \in 1..Len(dataset)} :
                  ~Falsy(name) /\ name # Str("a")}
              \cup {Str("A") : i \in {j \in 1..Len(dataset) : dataset[j].index_name = Str("a")}})

\* script.js:310-312: [...new Set(names)].filter(Boolean).sort()
UniqueCompanies(dataset) ==
    SortNames({name \in {dataset[i].index_name : i \in 1..Len(dataset)} : ~Falsy(name)})

Ids(records) == [i \in 1..Len(records) |-> records[i].id]

\* script.js:1168-1178: the page and the rows updateDataTable shows
TotalPages(d) == (Len(d) + rowsPerPage - 1) \div rowsPerPage
ClampPage(d, page) == Max(1, Min(page, TotalPages(d)))
PageData(d, page) ==
    SubSeq(d, (ClampPage(d, page) - 1) * rowsPerPage + 1,
              Min((ClampPage(d, page) - 1) * rowsPerPage + rowsPerPage, Len(d)))

\* script.js:464
CompanyData(dataset, company) == SelectSeq(dataset, LAMBDA row : row.index_name = company)

\* the test each chart makes before it draws: script.js:757-759, 920,
\* 987-991
HasChartData(c, d) ==
    CASE c = "price" ->
            \E i \in 1..Len(d) : isValidNumber(d[i].closing_index_value)
      [] c = "volume" ->
            \E i \in 1..Len(d) : isValidNumber(d[i].volume) /\ JsGt(d[i].volume, Num(0))
      [] c = "metrics" ->
            \E i \in 1..Len(d) : \E f \in {"pe_ratio", "pb_ratio", "div_yield"} :
                isValidNumber(d[i][f]) /\ JsGt(d[i][f], Num(0))

\* script.js:1111-1145: the states of the chart after displayNoDataMessage.
\* The canvas is hidden and the placeholder shown; an existing Chart is then
\* destroyed, and Chart.js (loaded from a CDN, index.html:8) may put back the
\* display style the canvas had when the Chart was made.
displayNoDataMessage(chart) ==
    {[instance |-> FALSE, type |-> "none", canvas |-> cv, placeholder |-> TRUE] :
        cv \in IF chart.instance THEN {"none", chart.canvas} ELSE {"none"}}

\* updateVolumeChart (script.js:915) and updateMetricsChart (982) as far as
\* the instance and the DOM go: no data gives the placeholder, data gives a
\* new bar Chart (script.js:932, 1050) on the canvas as it is
updateChart(c, d, chart) ==
    IF HasChartData(c, d)
    THEN {[chart EXCEPT !.instance = TRUE, !.type = "bar"]}
    ELSE displayNoDataMessage(chart)

\* script.js:821-826: some record has its open, high, low and close
HasOHLC(d) ==
    \E i \in 1..Len(d) :
        \A f \in {"open_index_value", "high_index_value", "low_index_value",
                  "closing_index_value"} : isValidNumber(d[i][f])

\* currentChartType after updatePriceChart(d) is called while it is `type`:
\* the candlestick view without a record to draw falls back to the line view,
\* script.js:828-833
ChartTypeAfter(d, type) ==
    IF HasChartData("price", d) /\ type # "line" /\ ~HasOHLC(d) THEN "line" ELSE type

\* script.js:752-909 as far as the instance and the DOM go.  The
\* configuration is of type 'line' (script.js:772) or 'bar' (836); an
\* existing Chart gets the data and the options of the configuration and is
\* updated (script.js:903-906), which leaves its type as constructed; without
\* one a Chart of the configuration's type is constructed (908).
updatePriceChart(d, chart, type) ==
    IF ~HasChartData("price", d)
    THEN displayNoDataMessage(chart)
    ELSE IF chart.instance
         THEN {chart}
         ELSE {[chart EXCEPT !.instance = TRUE,
                             !.type = IF ChartTypeAfter(d, type) = "line"
                                      THEN "line" ELSE "bar"]}

\* script.js:607-622
updateCharts(d) ==
    LET sampledData == smartSampleData(d, ChartCap)
    IN  /\ chartData' = [c \in ChartIds |-> Ids(sampledData)]
        /\ currentChartType' = ChartTypeAfter(sampledData, currentChartType)
        /\ \E p \in updatePriceChart(sampledData, charts.price, currentChartType),
              v \in updateChart("volume", sampledData, charts.volume),
              m \in updateChart("metrics", sampledData, charts.metrics) :
                charts' = [price |-> p, volume |-> v, metrics |-> m]
        /\ summary' = displayDataSummary(d, summary)

\* updateDataTable without the clamp of script.js:1171
updateDataTable_NoClamp(d, page) ==
    IF Len(d) = 0
    THEN /\ currentPage' = page
         /\ tableData' = <<>>
         /\ UNCHANGED <<totalPages, paginationPage>>
    ELSE /\ currentPage' = page
         /\ tableData' = Ids(SubSeq(d, (page - 1) * rowsPerPage + 1,
                                       Min(page * rowsPerPage, Len(d))))
         /\ totalPages' = TotalPages(d)
         /\ paginationPage' = currentPage'

\* script.js:1151-1248, with currentPage as it is when the call is made; on
\* empty data the table shows one message row and the pagination is left as
\* it was
updateDataTable(d, page) ==
    IF Len(d) = 0
    THEN /\ currentPage' = page
         /\ tableData' = <<>>
         /\ UNCHANGED <<totalPages, paginationPage>>
    ELSE /\ currentPage' = ClampPage(d, page)
         /\ tableData' = Ids(PageData(d, page))
         /\ totalPages' = TotalPages(d)
         /\ paginationPage' = currentPage'

\* selectCompany without the test of script.js:473-476
selectCompany_NoRangeCheck(company, dataset) ==
    LET companyData == CompanyData(dataset, company)
        filtered == filterDataByDateRange(companyData, startDateInput, endDateInput)
    IN  /\ selectedCompany' = company
        /\ IF Len(companyData) = 0
           THEN /\ message' = "error"
                /\ UNCHANGED <<currentPage, currentChartType, completeness, summary,
                               chartData, tableData, charts, totalPages, paginationPage>>
           ELSE /\ completeness' = analyzeDataCompleteness(filtered)
                /\ updateCharts(filtered)
                /\ updateDataTable(filtered, 1)
                /\ message' = "success"

\* script.js:443-491 on the dataset `dataset`
selectCompany(company, dataset) ==
    LET companyData == CompanyData(dataset, company)
        filtered == filterDataByDateRange(companyData, startDateInput, endDateInput)
    IN  /\ selectedCompany' = company
        /\ IF Len(companyData) = 0 \/ Len(filtered) = 0
           THEN /\ message' = "error"
                /\ UNCHANGED <<currentPage, currentChartType, completeness, summary,
                               chartData, tableData, charts, totalPages, paginationPage>>
           ELSE /\ completeness' = analyzeDataCompleteness(filtered)
                /\ updateCharts(filtered)
                /\ updateDataTable(filtered, 1)
                /\ message' = "success"

\* the callback of Papa.parse, script.js:232-327.  When the callback of the
\* filter throws, the assignment of script.js:263 does not happen and the
\* error reaches the catch of script.js:223-225, which shows it.
ProcessCSVData ==
    /\ pc = "init"
    /\ pc' = "loaded"
    /\ UNCHANGED <<csv, startDateInput, endDateInput, exported,
                   data, maxPoints, average, sampled, filteredData>>
    /\ IF MissingHeaders(REQUIRED_HEADERS, csv) # {}
       THEN /\ message' = "error"
            /\ UNCHANGED <<fullDataset, uniqueCompanies, companyList, selectedCompany,
                           currentPage, currentChartType, completeness, summary,
                           chartData, tableData, charts, totalPages, paginationPage, warned>>
       ELSE /\ warned' = MissingHeaders(OPTIONAL_HEADERS, csv)
            /\ IF \E k \in 1..Len(csv.data) : RowThrows(csv.data[k])
               THEN /\ message' = "error"
                    /\ UNCHANGED <<fullDataset, uniqueCompanies, companyList,
                                   selectedCompany, currentPage, currentChartType,
                                   completeness, summary, chartData, tableData,
                                   charts, totalPages, paginationPage>>
               ELSE /\ fullDataset' = NormalizeRows(csv.data)
                    /\ IF Len(fullDataset') = 0
                       THEN /\ message' = "error"
                            /\ UNCHANGED <<uniqueCompanies, companyList,
                                           selectedCompany, currentPage,
                                           currentChartType, completeness, summary,
                                           chartData, tableData, charts, totalPages, paginationPage>>
                       ELSE /\ uniqueCompanies' = UniqueCompanies(fullDataset')
                            /\ companyList' = uniqueCompanies'
                            /\ selectCompany(At(uniqueCompanies', 0), fullDataset')

(***************************************************************************)
(* The files studied.  A row is written by its name, date and close cells  *)
(* and by one cell that fills every other numeric column.                  *)
(***************************************************************************)
AllHeaders == Range(REQUIRED_HEADERS) \cup Range(OPTIONAL_HEADERS)

MkRow(fields, line, cells) ==
    [f \in fields \cup {"id"} |->
        CASE f = "id" -> line
          [] f \in {"index_name", "INDEX_NAME"} -> cells[1]
          [] f = "index_date" -> cells[2]
          [] f = "closing_index_value" -> cells[3]
          [] OTHER -> cells[4]]

\* the files with the header `fields` and up to `most` rows out of `rows`
Files(fields, rows, most) ==
    UNION {{[fields |-> fields, data |-> [i \in 1..n |-> MkRow(fields, i, cells[i])]]
               : cells \in [1..n -> rows]}
           : n \in 0..most}

\* cells as PapaParse delivers them with dynamicTyping: null for an empty cell,
\* a number for a decimal literal, the string itself otherwise
NumericCells ==
    {Null, Num(0), Num(5), Str("abc"), Str("12abc"), Str("0x1A"), Str("+5"), Str(" ")}

\* one defect at a time around the row <<"A", 2021-01-01, 5, null>>
LoadRows ==
    {<<Str("A"), DateStr("iso", 1), Num(5), x>> : x \in NumericCells}
    \cup {<<Str("A"), DateStr("iso", 1), x, Num(0)>> : x \in NumericCells}
    \cup {<<Str("A"), dt, Num(5), Null>> : dt \in {DateStr("dmy", 15), DateStr("junk", 0), Null}}
    \cup {<<Null, DateStr("iso", 1), Num(5), Null>>}

LoadFiles(most) ==
    Files(AllHeaders, LoadRows, most)
    \cup Files(AllHeaders \ {"volume"}, LoadRows, most)
    \cup Files(AllHeaders \ {"open_index_value"}, LoadRows, most)
    \cup Files((AllHeaders \ {"index_name"}) \cup {"INDEX_NAME"}, LoadRows, most)

InitLoad ==
    /\ Constructed
    /\ NoCall
    /\ csv \in LoadFiles(MaxLoadRows)
    /\ pc = "init"
    /\ startDateInput = Str("")
    /\ endDateInput = Str("")

NextLoad == ProcessCSVData

SpecLoad == InitLoad /\ [][NextLoad]_vars

\* the file has every column of REQUIRED_HEADERS
RequiredColumnsPresent == \A i \in 1..Len(REQUIRED_HEADERS) : REQUIRED_HEADERS[i] \in csv.fields

\* C4: after processCSVData on an input with all required columns every record
\* of fullDataset has a non-empty index_name, a date written in a format that
\* validates (ISO or DD/MM/YYYY) and a closing_index_value that is a number,
\* never null.
C4_SurvivorsComplete ==
    (pc = "loaded" /\ RequiredColumnsPresent) =>
        \A i \in 1..Len(fullDataset) :
            /\ fullDataset[i].index_name.t = "string"
            /\ fullDataset[i].index_name.s # ""
            /\ fullDataset[i].index_date.t = "string"
            /\ fullDataset[i].index_date.fmt \in {"iso", "dmy"}
            /\ fullDataset[i].closing_index_value.t = "number"

\* of two rows, the one whose close does not read as a number is dropped
C4_Witness ==
    /\ pc = "loaded"
    /\ RequiredColumnsPresent
    /\ Len(csv.data) = 2
    /\ Len(fullDataset) = 1
    /\ \E k \in 1..2 : csv.data[k].closing_index_value \in {Null, Str("abc"), Str("12abc")}
    /\ \E k \in 1..2 : csv.data[k].index_date = DateStr("dmy", 15) /\ fullDataset[1].id = k

\* the number a cell holds: the cell is a number, or a string that reads as a
\* decimal number from its first to its last character
HoldsNumber(cell) == cell.t = "number" \/ cell = Str("+5")
NumberHeld(cell) == IF cell.t = "number" THEN cell.v ELSE 5

\* C6: for every numeric field of every record, a cell that holds a valid
\* finite number (0 included) becomes that number, and an empty, absent or
\* unparseable cell becomes null, never 0.
C6_MissingIsNeverZero ==
    pc = "loaded" =>
        \A i \in 1..Len(fullDataset) : \A f \in NumericFields :
            LET cell == Get(csv.data[fullDataset[i].id], f)
            IN  IF HoldsNumber(cell)
                THEN fullDataset[i][f] = Num(NumberHeld(cell))
                ELSE fullDataset[i][f] = Null

(***************************************************************************)
(* The application: the file is parsed once, then the user selects         *)
(* companies, edits and submits the date range and toggles the chart type. *)
(***************************************************************************)
AppRows ==
    {<<Str("A"), DateStr("iso", 1), Num(10), Num(5)>>,
     <<Str("A"), DateStr("iso", 2), Num(20), Null>>,
     <<Str("A"), DateStr("dmy", 15), Num(30), Num(5)>>,
     <<Str("B"), DateStr("iso", 3), Num(0), Num(5)>>,
     <<Str("B"), DateStr("iso", 2), Null, Num(5)>>,
     <<Str("a"), DateStr("iso", 1), Num(10), Num(5)>>}

AppFiles(most) ==
    Files(AllHeaders, AppRows, most)
    \cup Files(AllHeaders \ {"open_index_value"}, AppRows, most)

AppDateInputs == {Str(""), DateStr("iso", 2)}

Init ==
    /\ Constructed
    /\ NoCall
    /\ csv \in AppFiles(MaxRows)
    /\ pc = "init"
    /\ startDateInput = Str("")
    /\ endDateInput = Str("")

\* a click on a company item, script.js:410
SelectCompany(company) ==
    /\ company \in Range(companyList)
    /\ selectCompany(company, fullDataset)
    /\ UNCHANGED <<csv, pc, fullDataset, uniqueCompanies,
                   startDateInput, endDateInput, companyList, exported, warned,
                   data, maxPoints, average, sampled, filteredData>>

\* the user changes the two date inputs
EditDateInputs(startValue, endValue) ==
    /\ <<startValue, endValue>> # <<startDateInput, endDateInput>>
    /\ startDateInput' = startValue
    /\ endDateInput' = endValue
    /\ UNCHANGED <<appVars, pc, data, maxPoints, average, sampled, filteredData>>

\* SubmitDateRange with the filtered records assigned to fullDataset
SubmitDateRange_AssignsDataset ==
    /\ selectedCompany # Null
    /\ LET filtered == filterDataByDateRange(CompanyData(fullDataset, selectedCompany),
                                             startDateInput, endDateInput)
       IN  IF Len(filtered) = 0
           THEN /\ message' = "error"
                /\ UNCHANGED <<currentPage, currentChartType, summary, chartData,
                               tableData, charts, totalPages, paginationPage, fullDataset>>
           ELSE /\ fullDataset' = filtered
                /\ updateCharts(filtered)
                /\ updateDataTable(filtered, 1)
                /\ UNCHANGED message
    /\ UNCHANGED <<csv, pc, uniqueCompanies, selectedCompany,
                   companyList, completeness, startDateInput, endDateInput, exported,
                   warned, data, maxPoints, average, sampled, filteredData>>

\* the submit handler of the date range form, script.js:1342-1360
SubmitDateRange ==
    /\ selectedCompany # Null
    /\ LET filtered == filterDataByDateRange(CompanyData(fullDataset, selectedCompany),
                                             startDateInput, endDateInput)
       IN  IF Len(filtered) = 0
           THEN /\ message' = "error"
                /\ UNCHANGED <<currentPage, currentChartType, summary, chartData,
                               tableData, charts, totalPages, paginationPage>>
           ELSE /\ updateCharts(filtered)
                /\ updateDataTable(filtered, 1)
                /\ UNCHANGED message
    /\ UNCHANGED <<csv, pc, fullDataset, uniqueCompanies, selectedCompany,
                   companyList, completeness, startDateInput,
                   endDateInput, exported, warned, data, maxPoints, average, sampled,
                   filteredData>>

\* the click handlers of the chart type buttons, script.js:1365-1391
ClickChartType(type) ==
    /\ currentChartType # type
    /\ IF selectedCompany # Null
       THEN LET filtered == filterDataByDateRange(CompanyData(fullDataset, selectedCompany),
                                                  startDateInput, endDateInput)
            IN  /\ currentChartType' = ChartTypeAfter(filtered, type)
                /\ chartData' = [chartData EXCEPT !.price = Ids(filtered)]
                /\ \E p \in updatePriceChart(filtered, charts.price, type) :
                       charts' = [charts EXCEPT !.price = p]
       ELSE /\ currentChartType' = type
            /\ UNCHANGED <<chartData, charts>>
    /\ UNCHANGED <<csv, pc, fullDataset, uniqueCompanies, selectedCompany, currentPage,
                   companyList, message, completeness, summary, tableData, totalPages, paginationPage,
                   exported, warned, startDateInput, endDateInput, data, maxPoints, average, sampled,
                   filteredData>>

ClickLine == ClickChartType("line")

ClickCandlestick == ClickChartType("candlestick")

\* The text of a cell of a CSV file: nothing, the decimal literal of a
\* number, or the characters of a string.
EmptyText == [form |-> "empty"]
NumberText(v) == [form |-> "number", v |-> v]
CharsText(value) == [form |-> "chars", of |-> value]

\* Papa.unparse on one value (script.js:1422): null and undefined are written
\* as nothing, a number as its decimal literal and a string as its
\* characters (no name or date of the files studied needs quotes)
UnparseValue(value) ==
    CASE value.t \in {"null", "undefined"} -> EmptyText
      [] value.t = "number" -> NumberText(value.v)
      [] value.t = "NaN" -> CharsText(Str("NaN"))
      [] OTHER -> IF value = Str("") THEN EmptyText ELSE CharsText(value)

\* Papa.unparse on an array of records, script.js:1422: the header is the
\* keys of the first record (id is the line tag of the model, not a column)
Unparse(records) ==
    [fields |-> DOMAIN records[1] \ {"id"},
     data |-> [i \in 1..Len(records) |->
                  [f \in DOMAIN records[1] |->
                      IF f = "id" THEN i
                      ELSE IF f \in DOMAIN records[i] THEN UnparseValue(records[i][f])
                           ELSE EmptyText]]]

\* the value Papa.parse gives a cell under dynamicTyping: true (script.js:215):
\* nothing is null, a decimal literal is its number, other characters stay
\* the string they are (no string of the files studied is a literal of a
\* number, of a boolean or of an ISO date-time)
ParseDynamic(text) ==
    CASE text.form = "empty" -> Null
      [] text.form = "number" -> Num(text.v)
      [] OTHER -> text.of

\* Papa.parse with header: true and dynamicTyping: true (script.js:213-217)
\* on the text of a file
PapaParse(file) ==
    [fields |-> file.fields,
     data |-> [i \in 1..Len(file.data) |->
                  [f \in DOMAIN file.data[i] |->
                      IF f = "id" THEN file.data[i][f] ELSE ParseDynamic(file.data[i][f])]]]

\* ExportData writing every record of the company, whatever the date range
ExportData_IgnoresRange ==
    /\ selectedCompany # Null
    /\ LET filtered == CompanyData(fullDataset, selectedCompany)
       IN  IF Len(filtered) = 0
           THEN message' = "error" /\ UNCHANGED exported
           ELSE exported' = Unparse(filtered) /\ UNCHANGED message
    /\ UNCHANGED <<csv, pc, fullDataset, uniqueCompanies, selectedCompany, currentPage,
                   currentChartType, companyList, completeness, summary, chartData,
                   tableData, charts, totalPages, paginationPage, warned, startDateInput, endDateInput,
                   data, maxPoints, average, sampled, filteredData>>

\* exportDataToCSV, script.js:1409-1438, called by the click listener of
\* script.js:1397-1401 (registered when the page has an element #export-data);
\* exported is the content of the file downloaded last
ExportData ==
    /\ selectedCompany # Null
    /\ LET filtered == filterDataByDateRange(CompanyData(fullDataset, selectedCompany),
                                             startDateInput, endDateInput)
       IN  IF Len(filtered) = 0
           THEN message' = "error" /\ UNCHANGED exported
           ELSE exported' = Unparse(filtered) /\ UNCHANGED message
    /\ UNCHANGED <<csv, pc, fullDataset, uniqueCompanies, selectedCompany, currentPage,
                   currentChartType, companyList, completeness, summary, chartData,
                   tableData, charts, totalPages, paginationPage, warned, startDateInput, endDateInput,
                   data, maxPoints, average, sampled, filteredData>>

\* the click listeners of the Previous and Next buttons, script.js:1287-1296
\* and 1304-1313: step is -1 or 1.  The buttons exist once a table has been
\* rendered (totalPages is the value their closure holds) and a button
\* disabled when it was built (script.js:1286 and 1303) does not click; a
\* company is selected whenever they exist.
TurnPage(step) ==
    /\ totalPages # 0
    /\ IF step < 0
       THEN paginationPage # 1 /\ currentPage > 1
       ELSE paginationPage # totalPages /\ currentPage < totalPages
    /\ updateDataTable(filterDataByDateRange(CompanyData(fullDataset, selectedCompany),
                                             startDateInput, endDateInput),
                       currentPage + step)
    /\ UNCHANGED <<csv, pc, fullDataset, uniqueCompanies, selectedCompany,
                   currentChartType, companyList, message, completeness, summary,
                   chartData, charts, exported, warned, startDateInput, endDateInput,
                   data, maxPoints, average, sampled, filteredData>>

PreviousPage == TurnPage(-1)

NextPage == TurnPage(1)

\* The steps of the page as shipped on files of at most MaxRows rows.  The
\* page of index.html has no element #export-data, so the listener of
\* script.js:1397-1401 is not registered there, and with fewer rows than
\* rowsPerPage the paging buttons are disabled: NextLarge has those steps.
Next ==
    \/ ProcessCSVData
    \/ \E company \in Range(companyList) : SelectCompany(company)
    \/ \E startValue \in AppDateInputs, endValue \in AppDateInputs :
          EditDateInputs(startValue, endValue)
    \/ SubmitDateRange
    \/ ClickLine
    \/ ClickCandlestick

Spec == Init /\ [][Next]_vars

\* a row that passes validation: a name, a date in a format that validates
\* and a close that is a number
Survives(row) ==
    /\ Get(row, "index_name").t = "string"
    /\ Get(row, "index_date").t = "string"
    /\ Get(row, "index_date").fmt \in {"iso", "dmy"}
    /\ HoldsNumber(Get(row, "closing_index_value"))

\* the load fails fatally: a required header is missing or no row survives
FatalLoad ==
    \/ ~RequiredColumnsPresent
    \/ \A k \in 1..Len(csv.data) : ~Survives(csv.data[k])

\* C5: once the load has failed fatally, in every later state there is no
\* dataset, the series catalog is empty, no series is selected, none is
\* selectable and no view has been handed a record.
C5_NoPartialDataset ==
    (pc = "loaded" /\ FatalLoad) =>
        /\ fullDataset = <<>>
        /\ uniqueCompanies = <<>>
        /\ companyList = <<>>
        /\ selectedCompany = Null
        /\ chartData = NoCharts
        /\ tableData = <<>>

\* a header is missing while two rows would survive; the user has since set a
\* date and switched the chart type
C5_Witness ==
    /\ pc = "loaded"
    /\ ~RequiredColumnsPresent
    /\ Len(csv.data) = 2
    /\ \A k \in 1..2 : Survives(csv.data[k])
    /\ startDateInput # Str("")
    /\ currentChartType = "candlestick"
    /\ message = "error"
    /\ fullDataset = <<>>

\* every column is there and no row survives; the user has since set a date
C5_WitnessNoRows ==
    /\ pc = "loaded"
    /\ RequiredColumnsPresent
    /\ Len(csv.data) = 2
    /\ FatalLoad
    /\ endDateInput # Str("")
    /\ message = "error"

\* the names of the records of the dataset
NamesIn(dataset) == {dataset[i].index_name : i \in 1..Len(dataset)}

\* C11: after a successful load uniqueCompanies is strictly ascending in the
\* order of the names' code units (so it has no duplicates) and holds exactly
\* the index_name values of fullDataset; "A" and "a" are two entries.
C11_CatalogSortedUnique ==
    (pc = "loaded" /\ ~FatalLoad) =>
        /\ \A i, j \in 1..Len(uniqueCompanies) :
               i < j => CodeUnit(uniqueCompanies[i]) < CodeUnit(uniqueCompanies[j])
        /\ Range(uniqueCompanies) = NamesIn(fullDataset)
        /\ Len(uniqueCompanies) = Cardinality(NamesIn(fullDataset))

\* the file lists "a" before "A"; the catalog is <<"A", "a">>
C11_Witness ==
    /\ pc = "loaded"
    /\ Len(fullDataset) = 2
    /\ fullDataset[1].index_name = Str("a")
    /\ fullDataset[2].index_name = Str("A")
    /\ uniqueCompanies = <<Str("A"), Str("a")>>

\* two records of one company give one entry
C11_WitnessDuplicate ==
    /\ pc = "loaded"
    /\ Len(fullDataset) = 2
    /\ fullDataset[1].index_name = Str("B")
    /\ fullDataset[2].index_name = Str("B")
    /\ uniqueCompanies = <<Str("B")>>

(***************************************************************************)
(* The application on files with more records than a table page            *)
(* (rowsPerPage) or a chart (ChartCap) holds: one record of company "B"     *)
(* on day 1, then `count` records of company "A" on the days 2, 3, ...     *)
(* The date inputs are filled in before the file arrives and then left     *)
(* alone.                                                                  *)
(***************************************************************************)
LargeFile(count) ==
    [fields |-> AllHeaders,
     data |-> [i \in 1..(count + 1) |->
                  MkRow(AllHeaders, i,
                        <<IF i = 1 THEN Str("B") ELSE Str("A"), DateStr("iso", i),
                          Num(10), Num(5)>>)]]

LargeFiles(over) == {LargeFile(rowsPerPage + 1), LargeFile(ChartCap + over)}

InitLarge ==
    /\ Constructed
    /\ NoCall
    /\ csv \in LargeFiles(MaxOver)
    /\ pc = "init"
    /\ startDateInput \in AppDateInputs
    /\ endDateInput \in AppDateInputs

NextLarge ==
    \/ ProcessCSVData
    \/ \E company \in Range(companyList) : SelectCompany(company)
    \/ SubmitDateRange
    \/ ClickLine
    \/ ClickCandlestick
    \/ ExportData
    \/ PreviousPage
    \/ NextPage

SpecLarge == InitLarge /\ [][NextLarge]_vars

\* C12: in every state, the record sequence last handed to updatePriceChart,
\* to updateVolumeChart and to updateMetricsChart has at most 150 records.
C12_ChartsGetSampledData == \A c \in ChartIds : Len(chartData[c]) <= ChartCap

\* C13: once the file is loaded, no step changes fullDataset (its records and
\* their order) or uniqueCompanies, whichever handler takes it: a selection
\* (also one that finds no record in the date range), a date submission, a
\* page turn, a chart type toggle or an export.
C13_DatasetNeverMutated ==
    [][pc = "loaded" => (fullDataset' = fullDataset /\ uniqueCompanies' = uniqueCompanies)]_vars

\* "A" was shown on its second page as candlesticks and exported, then "B" was
\* selected and has no record in the date range; the dataset is still the
\* one the load produced
C13_Witness ==
    /\ pc = "loaded"
    /\ selectedCompany = Str("B")
    /\ message = "error"
    /\ currentPage = 2
    /\ currentChartType = "candlestick"
    /\ exported # <<>>
    /\ fullDataset = NormalizeRows(csv.data)
    /\ uniqueCompanies = <<Str("A"), Str("B")>>

\* String.prototype.toLowerCase on the header names of the files studied
LowerCase(h) == IF h = "INDEX_NAME" THEN "index_name" ELSE h

\* the cell of the row under the header h in whatever casing the file has it
CellAnyCasing(row, h) ==
    IF \E f \in DOMAIN row : LowerCase(f) = h
    THEN row[CHOOSE f \in DOMAIN row : LowerCase(f) = h]
    ELSE Undefined

\* the row passes validation when its cells are found whatever the casing
SurvivesAnyCasing(row) ==
    /\ CellAnyCasing(row, "index_name").t = "string"
    /\ CellAnyCasing(row, "index_date").t = "string"
    /\ CellAnyCasing(row, "index_date").fmt \in {"iso", "dmy"}
    /\ HoldsNumber(CellAnyCasing(row, "closing_index_value"))

\* C14: a file in which every required header appears in some casing (and
\* which has a valid row) loads without an error, also when a header is
\* spelled INDEX_NAME.
C14_HeaderCaseInsensitive ==
    (/\ pc = "loaded"
     /\ \A i \in 1..Len(REQUIRED_HEADERS) :
           \E f \in csv.fields : LowerCase(f) = REQUIRED_HEADERS[i]
     /\ \E k \in 1..Len(csv.data) : SurvivesAnyCasing(csv.data[k]))
    => (message # "error" /\ fullDataset # <<>>)

\* the ten fields the specification calls optional
ClaimedOptional ==
    {"open_index_value", "high_index_value", "low_index_value", "points_change",
     "change_percent", "volume", "turnover_rs_cr", "pe_ratio", "pb_ratio", "div_yield"}

TrulyOptional ==
    ClaimedOptional \ {"open_index_value", "high_index_value", "low_index_value"}

IsoForm(row) ==
    IF row.index_date.fmt = "dmy"
    THEN [row EXCEPT !.index_date = DateStr("iso", row.index_date.day)]
    ELSE row

IsoForms(d) == [i \in 1..Len(d) |-> IsoForm(d[i])]

\* C16: every record of the input is one normalization accepts, and
\* filterDataByDateRange keeps and orders the records as it does when each
\* DD/MM/YYYY date is written in its ISO form.
C16_FallbackDateAsIso ==
    pc = "return" =>
        /\ \A i \in 1..Len(data) : validateDate(data[i].index_date)
        /\ Ids(filteredData)
               = Ids(filterDataByDateRange(IsoForms(data), startDateInput, endDateInput))

(***************************************************************************)
(* calculateAverage, the closure of updateMetricsChart (script.js:997-1003) *)
(* that averages the pe_ratio, pb_ratio and div_yield columns.  The values *)
(* are those of normalized records: numbers or null.                       *)
(***************************************************************************)
\* the values calculateAverage keeps, script.js:998-999
AveragedValues(values) ==
    LET kept == SelectSeq(values, LAMBDA v : isValidNumber(v) /\ JsGt(v, Num(0)))
    IN  [i \in 1..Len(kept) |-> kept[i].v]

\* script.js:997-1003: a fraction, or null when no value is kept
calculateAverage(values) ==
    IF Len(AveragedValues(values)) > 0
    THEN FracDiv(Frac(SumValues(AveragedValues(values)), 1), Len(AveragedValues(values)))
    ELSE Null

AverageInputs(most) ==
    UNION {[1..n -> {Null, Num(0), Num(4), Num(8)}] : n \in 0..most}

InitAverage ==
    /\ Constructed
    /\ csv = NoFile
    /\ pc = "call"
    /\ startDateInput = Str("")
    /\ endDateInput = Str("")
    /\ data \in AverageInputs(MaxValues)
    /\ maxPoints = 0
    /\ average = Null
    /\ sampled = <<>>
    /\ filteredData = <<>>

CallCalculateAverage ==
    /\ pc = "call"
    /\ pc' = "return"
    /\ average' = calculateAverage(data)
    /\ UNCHANGED <<appVars, startDateInput, endDateInput, data, maxPoints, sampled,
                   filteredData>>

NextAverage == CallCalculateAverage

SpecAverage == InitAverage /\ [][NextAverage]_vars

\* the values that are numbers, zero included
NumbersAveraged == SelectSeq(data, LAMBDA v : v.t = "number")

\* C17: the average is the mean of the values that are numbers: a 0 counts
\* toward it and a null does not, so <<0, 4, null>> averages to 2.
C17_ZeroCountsNullDoesNot ==
    (pc = "return" /\ Len(NumbersAveraged) > 0) =>
        /\ average # Null
        /\ FracEq(average,
                  Frac(SumValues([i \in 1..Len(NumbersAveraged) |-> NumbersAveraged[i].v]),
                       Len(NumbersAveraged)))

\* the records the selected company has in the date range of the inputs
CurrentFiltered ==
    filterDataByDateRange(CompanyData(fullDataset, selectedCompany),
                          startDateInput, endDateInput)

\* the records the selected company has between the date inputs once the
\* step is taken
FilteredAfter ==
    filterDataByDateRange(CompanyData(fullDataset', selectedCompany'),
                          startDateInput', endDateInput')

\* C18: every completeness report rendered was computed by
\* analyzeDataCompleteness over at least one record, so no percentage is a
\* division by zero.
C18_AnalyzerNeverGetsEmptySet ==
    \A i \in 1..Len(completeness) : completeness[i].total > 0

\* "B" was selected while it has no record in the date range: the selection
\* was refused and the report and the table are still those of "A"
C18_Witness ==
    /\ pc = "loaded"
    /\ selectedCompany = Str("B")
    /\ message = "error"
    /\ Len(CurrentFiltered) = 0
    /\ completeness # <<>>
    /\ Len(tableData) = 1
    /\ \E i \in 1..Len(fullDataset) :
          fullDataset[i].id = tableData[1] /\ fullDataset[i].index_name = Str("A")

\* a step of selectCompany or of the date range form's submit handler
SelectsOrSubmits ==
    \/ SubmitDateRange
    \/ \E company \in Range(companyList) : SelectCompany(company)

\* C19: after every series selection and every date submission that finds
\* records, the completeness report, the summary, the three charts and the
\* table are those of the records the selected company has in the date range.
C19_ViewsRecomputed ==
    [][(pc = "loaded" /\ SelectsOrSubmits /\ Len(FilteredAfter) > 0) =>
          /\ completeness' = analyzeDataCompleteness(FilteredAfter)
          /\ summary' = displayDataSummary(FilteredAfter, summary)
          /\ chartData' = [c \in ChartIds |-> Ids(smartSampleData(FilteredAfter, ChartCap))]
          /\ tableData' = Ids(PageData(FilteredAfter, 1))]_vars

\* a chart that is on display: a live Chart on a visible canvas and no
\* placeholder in its place
OnDisplay(chart) ==
    /\ chart.instance
    /\ chart.canvas = "shown"
    /\ ~chart.placeholder

\* C20: after every selection that finds records, whatever was selected
\* before, each chart for which the records of the selection have valid
\* data is on display.
C20_ChartsDisplayed ==
    [][(/\ pc = "loaded"
        /\ \E company \in Range(companyList) : SelectCompany(company)
        /\ Len(FilteredAfter) > 0)
       => \A c \in ChartIds :
             HasChartData(c, smartSampleData(FilteredAfter, ChartCap))
                => OnDisplay(charts'[c])]_vars


\* the n records of d with the latest dates, d being in ascending date order
MostRecent(d, n) == SubSeq(d, Max(1, Len(d) - n + 1), Len(d))

\* C21: after every step that selects another series (selectCompany is the
\* only writer of selectedCompany, script.js:445) and finds records, the table
\* shows the 50 records of the filtered set with the latest dates, or all of
\* them when there are fewer than 50.
C21_TableShowsMostRecent ==
    [][(/\ selectedCompany' # selectedCompany
        /\ Len(FilteredAfter) > 0)
       => tableData' = Ids(MostRecent(FilteredAfter, rowsPerPage))]_vars


\* the type of the Chart that draws the view `type` of the price chart
DrawnAs(type) == IF type = "line" THEN "line" ELSE "bar"

\* C22: after every click on the Line or the Candlestick button made while
\* the selected series has a record with valid open, high, low and close in
\* the date range, currentChartType is the type of the button clicked and the
\* price chart is a line Chart for Line and a bar Chart for Candlestick.
C22_ToggleSwitchesChart ==
    [][\A type \in {"line", "candlestick"} :
          (/\ pc = "loaded"
           /\ selectedCompany # Null
           /\ HasOHLC(CurrentFiltered)
           /\ ClickChartType(type))
          => /\ currentChartType' = type
             /\ charts'.price.instance
             /\ charts'.price.type = DrawnAs(type)]_vars


(***************************************************************************)
(* The export: the application on files whose close cells are numbers or   *)
(* strings that count as numbers and whose dates are written in both       *)
(* accepted formats, in a page that has the button #export-data.  The date *)
(* inputs are filled in before the file arrives and then left alone.       *)
(***************************************************************************)
MaxExportRows == 2

ExportRows ==
    {<<Str("A"), DateStr("iso", 1), Num(5), Null>>,
     <<Str("A"), DateStr("dmy", 15), Str("+5"), Num(5)>>,
     <<Str("A"), DateStr("iso", 3), Str("0x1A"), Str("abc")>>,
     <<Str("B"), DateStr("iso", 2), Num(0), Num(0)>>,
     <<Str("A"), DateStr("iso", 2), Null, Num(5)>>}

ExportFiles(most) ==
    Files(AllHeaders, ExportRows, most) \cup Files(AllHeaders \ {"volume"}, ExportRows, most)

InitExport ==
    /\ Constructed
    /\ NoCall
    /\ csv \in ExportFiles(MaxExportRows)
    /\ pc = "init"
    /\ startDateInput \in AppDateInputs
    /\ endDateInput \in AppDateInputs

NextExport ==
    \/ ProcessCSVData
    \/ \E company \in Range(companyList) : SelectCompany(company)
    \/ ExportData

SpecExport == InitExport /\ [][NextExport]_vars

\* the (series name, date, close) triples of a record sequence
Triples(records) ==
    {<<records[i].index_name, records[i].index_date, records[i].closing_index_value>> :
        i \in 1..Len(records)}

\* the dataset processCSVData (script.js:242-288) makes of the content of a
\* file: none when a required column is missing
Renormalized(file) ==
    IF MissingHeaders(REQUIRED_HEADERS, PapaParse(file)) # {}
    THEN <<>>
    ELSE NormalizeRows(PapaParse(file).data)

\* C23: whenever a file is exported, parsing and normalizing its content
\* gives the (series name, date, close) triples of the records the selected
\* series has in the date range, and as many records.
C23_ExportRoundTrip ==
    [][exported' # exported =>
          /\ Triples(Renormalized(exported')) = Triples(FilteredAfter)
          /\ Len(Renormalized(exported')) = Len(FilteredAfter)]_vars

\* the file exported has two records of "A", one dated 15/01/2021 whose close
\* cell was the string "+5"; the source file had no volume column
C23_Witness ==
    /\ exported # <<>>
    /\ Len(exported.data) = 2
    /\ "volume" \notin csv.fields
    /\ "volume" \in exported.fields
    /\ \E i \in 1..2 :
          /\ exported.data[i].index_date = CharsText(DateStr("dmy", 15))
          /\ exported.data[i].closing_index_value = NumberText(5)
          /\ exported.data[i].volume = EmptyText
    /\ \E k \in 1..Len(csv.data) : csv.data[k].closing_index_value = Str("+5")


(***************************************************************************)
(* The choice smartSampleData makes inside a bucket (checked under         *)
(* SpecSample).                                                            *)
(***************************************************************************)
\* the indices scanned for bucket i: startIdx..endIdx below the last index
Candidates(d, mp, i) ==
    {j \in (BucketFloor(i, Len(d), mp) + 1)..(BucketFloor(i + 1, Len(d), mp) + 1) :
        j < Len(d) - 1}

\* the representative of the bucket after bucket i
Representative(d, mp, i) == At(d, Min(BucketFloor(i + 2, Len(d), mp) + 1, Len(d) - 1))

\* the records are such as normalization produces: a date that validates and
\* a close that is a number
Normalized(d) ==
    \A k \in 1..Len(d) :
        validateDate(d[k].index_date) /\ d[k].closing_index_value.t = "number"

\* twice the area of the triangle a, b, c in the plane (date, close), the
\* date being the time of the record in days
PlanarArea(a, b, c) ==
    Abs((DateTime(a.index_date).v - DateTime(c.index_date).v)
            * (b.closing_index_value.v - a.closing_index_value.v)
        - (DateTime(a.index_date).v - DateTime(b.index_date).v)
            * (c.closing_index_value.v - a.closing_index_value.v))

\* C24: on normalized records with data.length > maxPoints, the record
\* selected for bucket i is a candidate of bucket i, and no candidate of the
\* bucket makes a larger triangle with the record selected before (a) and the
\* representative of the next bucket (c).
C24_PickMaximizesArea ==
    (pc = "return" /\ Len(data) > maxPoints /\ maxPoints > 2 /\ Normalized(data)) =>
        \A i \in 0..(maxPoints - 3) :
            /\ \E j \in Candidates(data, maxPoints, i) : At(data, j) = At(sampled, i + 1)
            /\ \A k \in Candidates(data, maxPoints, i) :
                  PlanarArea(At(sampled, i), At(data, k), Representative(data, maxPoints, i))
                      <= PlanarArea(At(sampled, i), At(sampled, i + 1),
                                    Representative(data, maxPoints, i))


\* the records have numbers for dates and for closes, so that every area of
\* script.js:727 is a number
Numeric(d) ==
    \A k \in 1..Len(d) :
        d[k].index_date.t = "number" /\ d[k].closing_index_value.t = "number"

\* the record selected for bucket i is the first candidate of the bucket of
\* maximal area with the record selected before it and data[cIdx]
SelectedAgainst(i, cIdx) ==
    \E j \in Candidates(data, maxPoints, i) :
        /\ At(data, j) = At(sampled, i + 1)
        /\ \A k \in Candidates(data, maxPoints, i) :
              /\ PlanarArea(At(sampled, i), At(data, k), At(data, cIdx))
                    <= PlanarArea(At(sampled, i), At(data, j), At(data, cIdx))
              /\ k < j => PlanarArea(At(sampled, i), At(data, k), At(data, cIdx))
                             < PlanarArea(At(sampled, i), At(data, j), At(data, cIdx))

\* the start index of bucket i, script.js:701
StartIdx(d, mp, i) == BucketFloor(i, Len(d), mp) + 1

Skipped(i, j) ==
    \/ ~isValidNumber(At(sampled, i).closing_index_value)
    \/ ~isValidNumber(At(data, j).closing_index_value)
    \/ ~isValidNumber(Representative(data, maxPoints, i).closing_index_value)

\* C26: when data.length > maxPoints the output has one record per bucket
\* between data[0] and the last record; the record of bucket i is data[j]
\* for an index j scanned for the bucket, which is an interior index
\* (0 < j < data.length - 1); and when every candidate of the bucket is
\* skipped it is the record at the bucket's start index.
C26_EveryBucketRepresented ==
    (pc = "return" /\ Len(data) > maxPoints) =>
        /\ Len(sampled) = Max(maxPoints - 2, 0) + 2
        /\ \A i \in 0..(maxPoints - 3) :
              /\ \E j \in Candidates(data, maxPoints, i) :
                    /\ At(sampled, i + 1) = At(data, j)
                    /\ 0 < j /\ j < Len(data) - 1
              /\ (\A j \in Candidates(data, maxPoints, i) : Skipped(i, j))
                    => At(sampled, i + 1) = At(data, StartIdx(data, maxPoints, i))

\* a bucket with two candidates, both skipped because the close of the
\* representative is null, is represented by the record at its start index
C26_Witness ==
    /\ pc = "return"
    /\ Len(data) > maxPoints
    /\ \E i \in 0..(maxPoints - 3) :
          /\ Cardinality(Candidates(data, maxPoints, i)) >= 2
          /\ Representative(data, maxPoints, i).closing_index_value = Null
          /\ At(sampled, i).closing_index_value # Null
          /\ \A j \in Candidates(data, maxPoints, i) : At(data, j).closing_index_value # Null
          /\ At(sampled, i + 1) = At(data, StartIdx(data, maxPoints, i))


(***************************************************************************)
(* Row validation: files of rows that each have one defect, or none, in    *)
(* the name, the date or the close.  A date cell of digits is a number     *)
(* after Papa.parse (dynamicTyping).                                       *)
(***************************************************************************)
MaxValidatedRows == 2

ValidatedRows ==
    {<<Str("A"), DateStr("iso", 1), Num(5), Null>>,
     <<Str("B"), DateStr("dmy", 15), Num(0), Num(5)>>,
     <<Str("A"), Num(2), Num(5), Null>>,
     <<Str("A"), Num(MaxDateTime + 1), Num(5), Null>>,
     <<Str("A"), DateStr("junk", 0), Num(5), Null>>,
     <<Null, DateStr("iso", 1), Num(5), Null>>,
     <<Str("A"), DateStr("iso", 1), Str("abc"), Null>>,
     <<Str("A"), DateStr("iso", 1), Null, Num(5)>>}

InitRows ==
    /\ Constructed
    /\ NoCall
    /\ csv \in Files(AllHeaders, ValidatedRows, MaxValidatedRows)
    /\ pc = "init"
    /\ startDateInput = Str("")
    /\ endDateInput = Str("")

NextRows ==
    \/ ProcessCSVData
    \/ \E company \in Range(companyList) : SelectCompany(company)

SpecRows == InitRows /\ [][NextRows]_vars

\* the date cell validates: a string in a format validateDate accepts, or a
\* number that is the time of a Date
DateValidates(cell) ==
    \/ cell.t = "string" /\ cell.fmt \in {"iso", "dmy"}
    \/ cell.t = "number" /\ cell.v # 0 /\ cell.v <= MaxDateTime /\ -cell.v <= MaxDateTime

\* the row is to be kept: a name, a date that validates, a close that is a
\* number
ToBeKept(row) ==
    /\ Get(row, "index_name").t = "string"
    /\ Get(row, "index_name") # Str("")
    /\ DateValidates(Get(row, "index_date"))
    /\ Get(row, "closing_index_value").t = "number"

\* C27: after the load of a file that has every required column, the dataset
\* holds exactly the rows that have a name, a date that validates and a close
\* that is a number, in the order of the file (so that the number of rows
\* dropped is the raw row count minus the dataset size); and when at least
\* one row is to be kept the load ends without an error, whatever the other
\* rows are.
C27_InvalidRowsOnlyDropped ==
    pc = "loaded" =>
        /\ Ids(fullDataset) = Ids(SelectSeq(csv.data, ToBeKept))
        /\ (\E k \in 1..Len(csv.data) : ToBeKept(csv.data[k]))
              => (message # "error" /\ selectedCompany # Null)


\* C28: when data.length > maxPoints the records of the output come from
\* strictly increasing positions of the input (id is the position of a
\* record in the input), so that no record of the input is output twice.
C28_StrictlyIncreasingPositions ==
    (pc = "return" /\ Len(data) > maxPoints) =>
        \A k \in 1..(Len(sampled) - 1) : sampled[k].id < sampled[k + 1].id


(***************************************************************************)
(* Paging: the application on files whose company "A" fills more than one  *)
(* table page and no more than a chart holds, with the date inputs edited  *)
(* between the clicks.                                                     *)
(***************************************************************************)
MaxPagesOver == 1

PagingFiles(over) ==
    {LargeFile(rowsPerPage + k) : k \in 1..over} \cup {LargeFile(2 * rowsPerPage + 1)}

InitPaging ==
    /\ Constructed
    /\ NoCall
    /\ csv \in PagingFiles(MaxPagesOver)
    /\ pc = "init"
    /\ startDateInput = Str("")
    /\ endDateInput = Str("")

NextPaging ==
    \/ ProcessCSVData
    \/ \E company \in Range(companyList) : SelectCompany(company)
    \/ \E startValue \in AppDateInputs, endValue \in AppDateInputs :
          EditDateInputs(startValue, endValue)
    \/ SubmitDateRange
    \/ PreviousPage
    \/ NextPage

SpecPaging == InitPaging /\ [][NextPaging]_vars

\* the rows of page `page` of the record sequence d
RowsOfPage(d, page) ==
    SubSeq(d, (page - 1) * rowsPerPage + 1, Min(page * rowsPerPage, Len(d)))

\* C29: every step that renders the table for the n > 0 records the selected
\* company has between the date inputs (the load, a selection, a submission,
\* a click on Previous or Next) leaves 1 <= currentPage <=
\* ceil(n / rowsPerPage) and in the table the records
\* (currentPage - 1) * rowsPerPage + 1 .. min(currentPage * rowsPerPage, n) of
\* that sequence; the load, a selection and a submission leave currentPage = 1.
C29_PageWithinBounds ==
    [][Len(FilteredAfter) > 0 =>
          /\ (ProcessCSVData \/ SelectsOrSubmits \/ PreviousPage \/ NextPage) =>
                /\ 1 <= currentPage'
                /\ currentPage' * rowsPerPage < Len(FilteredAfter) + rowsPerPage
                /\ tableData' = Ids(RowsOfPage(FilteredAfter, currentPage'))
          /\ (ProcessCSVData \/ SelectsOrSubmits) => currentPage' = 1]_vars

\* the third page of "A" is shown: the one record left after two full pages
C29_Witness ==
    /\ pc = "loaded"
    /\ selectedCompany = Str("A")
    /\ currentPage = 3
    /\ totalPages = 3
    /\ tableData = <<2 * rowsPerPage + 2>>


\* the charts and the table show the records `company` has between the date
\* bounds startValue and endValue, the table on one of its pages
ViewsShow(company, startValue, endValue) ==
    LET filtered == filterDataByDateRange(CompanyData(fullDataset, company),
                                          startValue, endValue)
    IN  /\ chartData = [c \in ChartIds |-> Ids(smartSampleData(filtered, ChartCap))]
        /\ IF Len(filtered) = 0
           THEN tableData = <<>>
           ELSE \E page \in 1..TotalPages(filtered) :
                   tableData = Ids(RowsOfPage(filtered, page))

\* C30: once a company is selected, the charts and the table always show the
\* records of one series between one pair of date bounds, and that series is
\* the one selectedCompany names.
C30_ViewsDescribeSameView ==
    (pc = "loaded" /\ selectedCompany # Null) =>
       \E startValue \in AppDateInputs, endValue \in AppDateInputs :
          ViewsShow(selectedCompany, startValue, endValue)

====
